---- MODULE Spec2Model ----
\* A model of the decision core of multi-llm-router: the rule-based intent
\* classifier (llm_router/agents/coordinator.py), the complexity detector and
\* model selector (llm_router/router.py).  Python strings are TLA+ strings, a
\* dict is a function whose DOMAIN holds the keys that are present, a list is
\* a sequence, and a call that raises yields Raise(<exception type>).
EXTENDS Integers, Sequences, FiniteSets, TLC

\* router: the caller's SmartRouter, once constructed.  call: the call in
\* progress and its outcome.  MODEL_PRICING, COMPLEXITY_KEYWORDS: the two
\* module-level dicts.  calculators: the CostCalculator objects callers
\* have constructed.  constructed_with: the custom_pricing each of them was
\* given, and earlier: a call made before and its result, both of which the
\* callers know and the properties speak of.  threads: the calls that
\* request-handling threads are in the middle of.
VARIABLES router, call, MODEL_PRICING, COMPLEXITY_KEYWORDS, calculators,
          constructed_with, earlier, threads

vars == <<router, call, MODEL_PRICING, COMPLEXITY_KEYWORDS, calculators,
          constructed_with, earlier, threads>>

\* ------------------------------------------------------------------ text

\* str.lower(), character by character, on the alphabet of the model.
lower_map ==
    [c \in {"A", "B", "C", "D", "E", "F", "G", "H", "I", "J", "K", "L", "M",
            "N", "O", "P", "Q", "R", "S", "T", "U", "V", "W", "X", "Y", "Z",
            "Á", "É", "Í", "Ñ", "Ó", "Ú"} |->
        CASE c = "A" -> "a" [] c = "B" -> "b" [] c = "C" -> "c" [] c = "D" -> "d"
          [] c = "E" -> "e" [] c = "F" -> "f" [] c = "G" -> "g" [] c = "H" -> "h"
          [] c = "I" -> "i" [] c = "J" -> "j" [] c = "K" -> "k" [] c = "L" -> "l"
          [] c = "M" -> "m" [] c = "N" -> "n" [] c = "O" -> "o" [] c = "P" -> "p"
          [] c = "Q" -> "q" [] c = "R" -> "r" [] c = "S" -> "s" [] c = "T" -> "t"
          [] c = "U" -> "u" [] c = "V" -> "v" [] c = "W" -> "w" [] c = "X" -> "x"
          [] c = "Y" -> "y" [] c = "Z" -> "z" [] c = "Á" -> "á" [] c = "É" -> "é"
          [] c = "Í" -> "í" [] c = "Ñ" -> "ñ" [] c = "Ó" -> "ó" [] c = "Ú" -> "ú"]

\* str.upper() on the same alphabet: the inverse pairs of lower_map.
upper_map ==
    [c \in {lower_map[u] : u \in DOMAIN lower_map} |->
        CHOOSE u \in DOMAIN lower_map : lower_map[u] = c]

lower_char(c) == IF c \in DOMAIN lower_map THEN lower_map[c] ELSE c

upper_char(c) == IF c \in DOMAIN upper_map THEN upper_map[c] ELSE c

\* The characters i..j of s, each lower-cased (halving keeps the nesting low).
RECURSIVE lower_range(_, _, _)
lower_range(s, i, j) ==
    IF i > j THEN ""
    ELSE IF i = j THEN lower_char(SubSeq(s, i, i))
    ELSE lower_range(s, i, (i + j) \div 2)
             \o lower_range(s, (i + j) \div 2 + 1, j)

\* s.lower()
lower(s) == lower_range(s, 1, Len(s))

RECURSIVE upper_range(_, _, _)
upper_range(s, i, j) ==
    IF i > j THEN ""
    ELSE IF i = j THEN upper_char(SubSeq(s, i, i))
    ELSE upper_range(s, i, (i + j) \div 2)
             \o upper_range(s, (i + j) \div 2 + 1, j)

\* s.upper()
upper(s) == upper_range(s, 1, Len(s))

\* ch.isspace()
isspace(c) == c \in {" ", "\t", "\n"}

\* ch.isalnum(): letters (accented ones included) and digits.
isalnum(c) ==
    \/ c \in DOMAIN lower_map
    \/ c \in DOMAIN upper_map
    \/ c \in {"0", "1", "2", "3", "4", "5", "6", "7", "8", "9"}

\* s.strip(): the text between the first and the last non-blank character.
strip(s) ==
    LET solid == {i \in 1..Len(s) : ~isspace(SubSeq(s, i, i))}
    IN  IF solid = {} THEN ""
        ELSE SubSeq(s, CHOOSE i \in solid : \A j \in solid : i <= j,
                       CHOOSE i \in solid : \A j \in solid : i >= j)

\* len(s.split()): the number of maximal runs of non-blank characters.
split_len(s) ==
    Cardinality({i \in 1..Len(s) :
        /\ ~isspace(SubSeq(s, i, i))
        /\ (i = 1 \/ isspace(SubSeq(s, i - 1, i - 1)))})

\* The substrings of text that have one of the given lengths.
substrings(text, lengths) ==
    UNION {{SubSeq(text, i, i + l - 1) : i \in 1..(Len(text) - l + 1)} :
              l \in lengths}

\* any(k in text for k in keywords): some keyword is a substring of text.
any_in(keywords, text) ==
    LET pieces == substrings(text, {Len(keywords[n]) : n \in DOMAIN keywords})
    IN  \E n \in DOMAIN keywords : keywords[n] \in pieces

\* sep.join(texts)
RECURSIVE join(_, _)
join(sep, texts) ==
    IF texts = <<>> THEN ""
    ELSE IF Len(texts) = 1 THEN texts[1]
    ELSE texts[1] \o sep \o join(sep, Tail(texts))

\* ---------------------------------------------------------------- tables

\* _is_smalltalk: smalltalk_phrases, a set
smalltalk_phrases ==
    {
      "adios", "adiós", "buen dia", "buen día", "buenas", "bueno",
      "buenos dias", "buenos días", "bye", "chau", "claro", "como estas",
      "cómo estás", "dale", "entendido", "genial", "gracias", "hasta luego",
      "hello", "hey", "hi", "hola", "muchas gracias", "no", "nos vemos",
      "ok", "ok!", "perfecto", "que tal", "qué tal", "see you", "si", "sí",
      "thank you", "thanks"
    }

\* _is_sales: keywords, a list in source order
sales_keywords ==
    <<
      "precio", "price", "plan", "planes", "plans", "cotización", "cotizar",
      "quote", "cuanto cuesta", "cuánto cuesta", "how much", "cuanto vale",
      "cuánto vale", "cost", "costo", "costos", "pricing", "comprar", "buy",
      "purchase", "contratar", "subscribe", "subscription", "suscribir",
      "suscripción", "suscripcion", "probar", "demo", "trial",
      "prueba gratis", "free trial", "vs", "versus", "diferencia entre",
      "difference between", "comparar", "compare", "cual es mejor",
      "which is better", "upgrade", "mejorar plan", "cambiar plan",
      "subir de plan", "más mensajes", "more messages", "sin crédito",
      "sin tokens", "out of credits", "límite", "limit", "alcanzado",
      "incluye", "includes", "tiene", "has", "viene con", "comes with",
      "ofrece", "offers", "funcionalidades", "features", "características",
      "licencia", "license", "factura", "invoice", "descuento", "discount",
      "oferta", "offer", "pagar", "pay", "pago", "payment", "forma de pago",
      "payment method", "tarjeta", "card", "transferencia", "transfer"
    >>

\* _is_support: keywords, a list in source order
support_keywords ==
    <<
      "no funciona", "not working", "doesn't work", "no me anda", "no puedo",
      "can't", "cannot", "no logro", "error", "bug", "problema", "problem",
      "falla", "fallo", "fails", "broken", "no responde", "no carga",
      "not loading", "ayuda", "help", "como hago", "cómo hago", "how do i",
      "necesito ayuda", "need help", "soporte", "support", "asistencia",
      "assistance", "configurar", "configure", "setup", "instalar",
      "install", "conectar", "connect", "integrar", "integrate",
      "integración", "integration", "no puedo entrar", "can't login",
      "can't access", "login", "contraseña", "password", "olvidé", "forgot",
      "recuperar", "recover", "reset", "api", "webhook", "widget",
      "dashboard", "analytics", "leads", "mensajes", "messages", "urgente",
      "urgent", "rápido", "asap"
    >>

\* _is_faq: keywords, a list in source order
faq_keywords ==
    <<
      "qué es", "que es", "what is", "como funciona", "cómo funciona",
      "how does", "para que sirve", "para qué sirve", "what for", "puede",
      "puedes", "can it", "can you", "sirve para", "used for", "hace",
      "does it", "permite", "allows", "límite", "limite", "limit", "cuanto",
      "cuánto", "how much", "how many", "máximo", "maximo", "maximum",
      "mínimo", "minimo", "minimum", "horario", "horarios", "hours",
      "schedule", "ubicación", "location", "dirección", "address", "donde",
      "dónde", "where", "cuando", "cuándo", "when", "abierto", "open",
      "cerrado", "closed", "info", "información", "information", "detalles",
      "details", "explicame", "explícame", "explain"
    >>

\* COMPLEXITY_KEYWORDS["high"], a list in source order
COMPLEXITY_KEYWORDS_high ==
    <<
      "analyze", "analiza", "compare", "compara", "evaluate", "evalúa",
      "strategy", "estrategia", "plan", "planifica", "recommend",
      "recomienda", "diagnostic", "diagnóstico", "complex", "complejo",
      "detailed", "detallado", "contract", "contrato", "legal", "financial",
      "financiero", "technical", "técnico", "architecture", "arquitectura"
    >>

\* COMPLEXITY_KEYWORDS["medium"], a list in source order
COMPLEXITY_KEYWORDS_medium ==
    <<
      "explain", "explica", "describe", "describes", "summarize", "resume",
      "list", "lista", "what is", "qué es", "how does", "cómo funciona",
      "difference", "diferencia", "advantages", "ventajas", "pros and cons"
    >>

\* COMPLEXITY_KEYWORDS["low"], a list in source order
COMPLEXITY_KEYWORDS_low ==
    <<
      "hi", "hola", "hello", "hey", "thanks", "gracias", "yes", "sí", "no",
      "ok", "dale", "sure", "price", "precio", "hours", "horario",
      "location", "ubicación", "contact", "contacto", "address", "dirección"
    >>


\* The length thresholds of _detect_complexity.
HighLength == 200

MediumLength == 50

\* ------------------------------------------------------------ Python values

\* None and a present value (Optional[...] arguments, missing dict keys).
None == [none |-> TRUE]

Some(x) == [some |-> x]

\* A str value and a list value (message content is one or the other).
Str(s) == [str |-> s]

List(l) == [list |-> l]

\* v is None
is_none(v) == "none" \in DOMAIN v

\* isinstance(v, str), isinstance(v, list)
is_str(v) == "str" \in DOMAIN v

is_list(v) == "list" \in DOMAIN v

\* The outcome of a call: the value returned, or the exception raised.
Return(v) == [ok |-> TRUE, value |-> v]

Raise(exc) == [ok |-> FALSE, exc |-> exc]

\* d.get(key, default) on a dict d
get(d, key, default) == IF key \in DOMAIN d THEN d[key] ELSE default

\* ----------------------------------------------------------------- numbers

\* Python's int is unbounded and its float is an IEEE 754 binary64.  A
\* natural number is kept as its limbs in base 2^10, least significant first
\* and without leading zero limbs, so that no intermediate value leaves the
\* range of the model checker's integers.
Base == 2^10

RECURSIVE big(_)
big(n) == IF n = 0 THEN <<>> ELSE <<n % Base>> \o big(n \div Base)

RECURSIVE small(_)
small(a) == IF a = <<>> THEN 0 ELSE Head(a) + Base * small(Tail(a))

RECURSIVE trim(_)
trim(a) ==
    IF a = <<>> THEN <<>>
    ELSE IF a[Len(a)] = 0 THEN trim(SubSeq(a, 1, Len(a) - 1))
    ELSE a

limb(a, i) == IF i <= Len(a) THEN a[i] ELSE 0

RECURSIVE add_from(_, _, _, _)
add_from(a, b, i, carry) ==
    IF i > Len(a) /\ i > Len(b)
    THEN IF carry = 0 THEN <<>> ELSE <<carry>>
    ELSE LET s == limb(a, i) + limb(b, i) + carry
         IN  <<s % Base>> \o add_from(a, b, i + 1, s \div Base)

add(a, b) == add_from(a, b, 1, 0)

\* a * k for 0 <= k <= Base.
RECURSIVE mul_small_from(_, _, _, _)
mul_small_from(a, k, i, carry) ==
    IF i > Len(a)
    THEN big(carry)
    ELSE LET p == a[i] * k + carry
         IN  <<p % Base>> \o mul_small_from(a, k, i + 1, p \div Base)

mul_small(a, k) == trim(mul_small_from(a, k, 1, 0))

zeros(n) == [i \in 1..n |-> 0]

RECURSIVE mul(_, _)
mul(a, b) ==
    IF a = <<>> \/ b = <<>> THEN <<>>
    ELSE LET rest == mul(Tail(a), b)
         IN  add(mul_small(b, Head(a)),
                 IF rest = <<>> THEN <<>> ELSE <<0>> \o rest)

\* Quotient and remainder of a by d, for 0 < d < 2^21.
RECURSIVE div_small_raw(_, _)
div_small_raw(a, d) ==
    IF a = <<>> THEN [q |-> <<>>, r |-> 0]
    ELSE LET hi  == div_small_raw(Tail(a), d)
             cur == hi.r * Base + Head(a)
         IN  [q |-> <<cur \div d>> \o hi.q, r |-> cur % d]

div_small(a, d) ==
    LET raw == div_small_raw(a, d) IN [q |-> trim(raw.q), r |-> raw.r]

RECURSIVE bit_length_small(_)
bit_length_small(n) == IF n = 0 THEN 0 ELSE 1 + bit_length_small(n \div 2)

bit_length(a) ==
    IF a = <<>> THEN 0 ELSE (Len(a) - 1) * 10 + bit_length_small(a[Len(a)])

\* a * 2^n and floor(a / 2^n).
shl(a, n) ==
    IF a = <<>> THEN <<>>
    ELSE zeros(n \div 10) \o mul_small(a, 2^(n % 10))

shr(a, n) ==
    IF n \div 10 >= Len(a) THEN <<>>
    ELSE div_small(SubSeq(a, n \div 10 + 1, Len(a)), 2^(n % 10)).q

odd(a) == a # <<>> /\ a[1] % 2 = 1

\* A float that is not negative: m * 2^e with 2^52 <= m < 2^53, or zero.
Mantissa == 53

float_zero == [m |-> <<>>, e |-> 0]

\* The float nearest to m * 2^e (plus a fraction of 2^e when inexact), ties
\* to even: the rounding of every float operation.
round_float(m, e, inexact) ==
    LET len == bit_length(m)
    IN  IF len = 0 THEN float_zero
        ELSE IF len <= Mantissa
        THEN [m |-> shl(m, Mantissa - len), e |-> e - (Mantissa - len)]
        ELSE LET drop    == len - Mantissa
                 keep1   == shr(m, drop - 1)
                 keep    == shr(keep1, 1)
                 below   == inexact \/ shl(keep1, drop - 1) # m
                 up      == odd(keep1) /\ (below \/ odd(keep))
                 rounded == IF up THEN add(keep, <<1>>) ELSE keep
             IN  IF bit_length(rounded) > Mantissa
                 THEN [m |-> shr(rounded, 1), e |-> e + drop + 1]
                 ELSE [m |-> rounded, e |-> e + drop]

\* n / d for ints n >= 0 and 0 < d < 2^21, correctly rounded: the quotient is
\* taken with 80 bits after the binary point and then rounded once.
true_div(n, d) ==
    LET guard == 80
        qr    == div_small(shl(big(n), guard), d)
    IN  round_float(qr.q, 0 - guard, qr.r # 0)

\* The literal digits * 10^-places, as 0.00015 is 15 * 10^-5: the float
\* nearest to the decimal value.
float_literal(digits, places) == true_div(digits, 10^places)

float_of_int(n) == round_float(big(n), 0, FALSE)

float_mul(x, y) == round_float(mul(x.m, y.m), x.e + y.e, FALSE)

float_add(x, y) ==
    IF x.m = <<>> THEN y
    ELSE IF y.m = <<>> THEN x
    ELSE LET e == IF x.e < y.e THEN x.e ELSE y.e
         IN  round_float(add(shl(x.m, x.e - e), shl(y.m, y.e - e)), e, FALSE)

\* int(x): truncation.
int_of_float(x) == small(IF x.e >= 0 THEN shl(x.m, x.e) ELSE shr(x.m, 0 - x.e))

\* a < b for natural numbers, from the most significant limb down.
RECURSIVE less_from(_, _, _)
less_from(a, b, i) ==
    IF i < 1 THEN FALSE
    ELSE IF a[i] # b[i] THEN a[i] < b[i]
    ELSE less_from(a, b, i - 1)

less(a, b) ==
    IF Len(a) # Len(b) THEN Len(a) < Len(b) ELSE less_from(a, b, Len(a))

\* x < y and x <= y for floats: zero is below every other float, and of two
\* others the one of the smaller exponent is the smaller, their mantissas
\* having the same length.
float_lt(x, y) ==
    IF y.m = <<>> THEN FALSE
    ELSE IF x.m = <<>> THEN TRUE
    ELSE IF x.e # y.e THEN x.e < y.e
    ELSE less(x.m, y.m)

float_le(x, y) == ~float_lt(y, x)

\* --------------------------------------------------------------- content

\* The texts of all parts that have one, whatever their type.
RECURSIVE part_texts_any_type(_)
part_texts_any_type(content) ==
    IF content = <<>> THEN <<>>
    ELSE (IF "text" \in DOMAIN Head(content)
          THEN <<Head(content).text>> ELSE <<>>)
         \o part_texts_any_type(Tail(content))

\* [p.get("text", "") for p in content if p.get("type") == "text"]
RECURSIVE part_texts(_)
part_texts(content) ==
    IF content = <<>> THEN <<>>
    ELSE (IF "type" \in DOMAIN Head(content) /\ Head(content).type = "text"
          THEN <<get(Head(content), "text", "")>> ELSE <<>>)
         \o part_texts(Tail(content))

\* The text _detect_complexity reads from a content, before lower-casing: a
\* str as it is, the text parts of a list joined by one space, "" otherwise.
content_text(content) ==
    IF is_str(content) THEN content.str
    ELSE IF is_list(content) THEN join(" ", part_texts(content.list))
    ELSE ""

\* ---------------------------------------------------------------- inputs

\* The longest text is a concatenation of MaxWords words.
MaxWords == 2

\* The longest list content has MaxParts parts.
MaxParts == 2

\* n copies of "x": text without any keyword.
RECURSIVE filler(_)
filler(n) ==
    IF n = 0 THEN ""
    ELSE LET half == filler(n \div 2)
         IN  half \o half \o (IF n % 2 = 1 THEN "x" ELSE "")

\* Words that texts are made of: social phrases, punctuation, blanks, a
\* keyword of each rule and tier (in upper or mixed case too), and keyword-free
\* text of 50, 51, 150 and 250 characters, which reach both thresholds from
\* either side (50 + 150 = 200, 51 + 150 = 201) and 300 (150 + 150).
Words ==
    {"Hola", "!", " ", "hasta luego", "PRICE", "error", "What is", "Analyze",
     filler(MediumLength), filler(MediumLength + 1),
     filler(HighLength - MediumLength), filler(HighLength + MediumLength)}

RECURSIVE concat(_)
concat(ws) == IF ws = <<>> THEN "" ELSE Head(ws) \o concat(Tail(ws))

BoundedSeq(S, n) == UNION {[1..k -> S] : k \in 0..n}

Texts == {concat(ws) : ws \in BoundedSeq(Words, MaxWords)}

\* The parts of a list content: text parts, a text part without text, and an
\* image part (whose stray text is not a text part's).
Parts ==
    {[type |-> "text", text |-> "what"], [type |-> "text", text |-> "is"],
     [type |-> "text", text |-> "Analyze"],
     [type |-> "text", text |-> filler(HighLength)], [type |-> "text"],
     [type |-> "image_url", text |-> "Analyze", image_url |-> "http://i/1.png"]}

Contents ==
    {Str(t) : t \in Texts} \cup {List(ps) : ps \in BoundedSeq(Parts, MaxParts)}

\* Messages around the last user message: a system prompt, an assistant reply
\* and an earlier user message, each full of keywords.
system_message ==
    [role |-> "system", content |-> Str("Analyze the price; what is the error?")]

assistant_message ==
    [role |-> "assistant", content |-> Str("Hola! What is the price error?")]

earlier_user_message ==
    [role |-> "user", content |-> Str("Explain the plan error " \o filler(HighLength))]

user_message(c) == [role |-> "user", content |-> c]

\* Every text the operations can meet in the conversations of the model.
TextUniverse ==
    {content_text(c) : c \in Contents} \cup
    {content_text(m.content) :
        m \in {system_message, assistant_message, earlier_user_message}} \cup {""}

\* text.lower() over the texts of the model, evaluated once.
lowered == [text \in TextUniverse |-> lower(text)]

\* ------------------------------------------------------ agents/base.py

\* AgentContext.last_user_message: the content of the last message whose role
\* is user, whatever its type; "" when it has no content or there is none.
RECURSIVE last_user_message_from(_, _)
last_user_message_from(messages, i) ==
    IF i < 1 THEN Str("")
    ELSE IF "role" \in DOMAIN messages[i] /\ messages[i].role = "user"
         THEN get(messages[i], "content", Str(""))
         ELSE last_user_message_from(messages, i - 1)

\* A property that reads the messages from the first on, and so returns the
\* content of the first message whose role is user.
first_user_message(messages) ==
    LET users == {i \in DOMAIN messages :
                     "role" \in DOMAIN messages[i] /\ messages[i].role = "user"}
    IN  IF users = {} THEN Str("")
        ELSE get(messages[CHOOSE i \in users : \A j \in users : i <= j],
                 "content", Str(""))

last_user_message(messages) == last_user_message_from(messages, Len(messages))

\* ------------------------------------------------ agents/coordinator.py

\* _is_smalltalk without the test for messages free of letters and digits.
is_smalltalk_phrases_only(msg) ==
    LET m == lower(strip(msg))
    IN  IF m = "" THEN FALSE
        ELSE split_len(m) <= 4 /\ m \in smalltalk_phrases

\* _is_smalltalk without the test for the empty message.
is_smalltalk_vacuous(msg) ==
    LET m == lower(strip(msg))
    IN  IF split_len(m) <= 4 /\ m \in smalltalk_phrases THEN TRUE
        ELSE IF \A i \in 1..Len(m) : ~isalnum(SubSeq(m, i, i)) THEN TRUE
        ELSE FALSE

\* CoordinatorAgent._is_smalltalk, for a str msg.
is_smalltalk(msg) ==
    LET m == lower(strip(msg))
    IN  IF m = "" THEN FALSE
        ELSE IF split_len(m) <= 4 /\ m \in smalltalk_phrases THEN TRUE
        ELSE IF \A i \in 1..Len(m) : ~isalnum(SubSeq(m, i, i)) THEN TRUE
        ELSE FALSE

\* CoordinatorAgent._is_sales, for a str msg.
is_sales(msg) == any_in(sales_keywords, lowered[msg])

\* CoordinatorAgent._is_support, for a str msg.
is_support(msg) == any_in(support_keywords, lowered[msg])

\* CoordinatorAgent._is_faq, for a str msg.
is_faq(msg) == any_in(faq_keywords, lowered[msg])

\* The four rules over the texts of the model, evaluated once.
rule_hits ==
    [msg \in TextUniverse |->
        [SMALLTALK |-> is_smalltalk(msg), SALES |-> is_sales(msg),
         SUPPORT |-> is_support(msg), FAQ |-> is_faq(msg)]]

\* The rule chain with SUPPORT tested before SALES.
suggested_kind_support_first(msg) ==
    IF rule_hits[msg].SMALLTALK THEN "SMALLTALK"
    ELSE IF rule_hits[msg].SUPPORT THEN "SUPPORT"
    ELSE IF rule_hits[msg].SALES THEN "SALES"
    ELSE IF rule_hits[msg].FAQ THEN "FAQ"
    ELSE "GENERAL"

\* The rule chain with FAQ tested before SALES.
suggested_kind_faq_first(msg) ==
    IF rule_hits[msg].SMALLTALK THEN "SMALLTALK"
    ELSE IF rule_hits[msg].FAQ THEN "FAQ"
    ELSE IF rule_hits[msg].SALES THEN "SALES"
    ELSE IF rule_hits[msg].SUPPORT THEN "SUPPORT"
    ELSE "GENERAL"

\* Step 1 of select_agent_kind: the rule chain, first match wins.
suggested_kind(msg) ==
    IF rule_hits[msg].SMALLTALK THEN "SMALLTALK"
    ELSE IF rule_hits[msg].SALES THEN "SALES"
    ELSE IF rule_hits[msg].SUPPORT THEN "SUPPORT"
    ELSE IF rule_hits[msg].FAQ THEN "FAQ"
    ELSE "GENERAL"

\* Gating that takes every list that is not None for a restriction, the empty
\* one too.
gate_empty_restricts(suggested, allowed_agents) ==
    IF ~is_none(allowed_agents)
    THEN LET allowed == {upper(allowed_agents.some[n]) :
                            n \in DOMAIN allowed_agents.some}
         IN  IF suggested \notin allowed THEN "GENERAL" ELSE suggested
    ELSE suggested

\* Gating that falls back to GENERAL only when GENERAL is allowed.
gate_fail_open(suggested, allowed_agents) ==
    IF ~is_none(allowed_agents) /\ Len(allowed_agents.some) > 0
    THEN LET allowed == {upper(allowed_agents.some[n]) :
                            n \in DOMAIN allowed_agents.some}
         IN  IF suggested \notin allowed
             THEN (IF "GENERAL" \in allowed THEN "GENERAL" ELSE suggested)
             ELSE suggested
    ELSE suggested

\* Step 2 of select_agent_kind: plan-based gating.  A None or empty
\* allowed_agents is falsy and gates nothing.
gate(suggested, allowed_agents) ==
    IF ~is_none(allowed_agents) /\ Len(allowed_agents.some) > 0
    THEN LET allowed == {upper(allowed_agents.some[n]) :
                            n \in DOMAIN allowed_agents.some}
         IN  IF suggested \notin allowed
             THEN (IF "GENERAL" \in allowed THEN "GENERAL" ELSE "GENERAL")
             ELSE suggested
    ELSE suggested

\* CoordinatorAgent.select_agent_kind.  msg.strip() on a content that is not
\* a str raises AttributeError.
select_agent_kind(messages, allowed_agents) ==
    LET last_msg == last_user_message(messages)
    IN  IF ~is_str(last_msg) THEN Raise("AttributeError")
        ELSE Return(gate(suggested_kind(last_msg.str), allowed_agents))


\* The info dict of get_agent_info.
agent_info ==
    [SALES |->
         [description |-> "Handles pricing, plans, and purchase inquiries",
          priority |-> "high",
          typical_intents |-> <<"pricing", "purchase", "upgrade">>],
     SUPPORT |->
         [description |-> "Handles technical issues and help requests",
          priority |-> "high",
          typical_intents |-> <<"error", "help", "configuration">>],
     FAQ |->
         [description |-> "Handles frequently asked questions",
          priority |-> "medium",
          typical_intents |-> <<"information", "how-to", "capabilities">>],
     SMALLTALK |->
         [description |-> "Handles greetings and casual conversation",
          priority |-> "low",
          typical_intents |-> <<"greeting", "farewell", "acknowledgment">>],
     GENERAL |->
         [description |-> "Default handler for unclassified queries",
          priority |-> "medium",
          typical_intents |-> <<"general", "unclassified">>]]

\* get_agent_info that looks the kind up in upper case, as the gating does
\* with the allow-list.
get_agent_info_upper(agent_kind) ==
    Return(get(agent_info, upper(agent_kind), agent_info["GENERAL"]))

\* CoordinatorAgent.get_agent_info
get_agent_info(agent_kind) ==
    Return(get(agent_info, agent_kind, agent_info["GENERAL"]))

\* ------------------------------------------------------------ router.py

\* The text of the content found by the loop of _detect_complexity, before it
\* is lower-cased.
RECURSIVE last_user_text_from(_, _)
last_user_text_from(messages, i) ==
    IF i < 1 THEN ""
    ELSE IF "role" \in DOMAIN messages[i] /\ messages[i].role = "user"
         THEN content_text(get(messages[i], "content", Str("")))
         ELSE last_user_text_from(messages, i - 1)

\* Which keyword lists the lower-cased text hits, over the texts of the model,
\* evaluated once.
keyword_hits ==
    [text \in TextUniverse |->
        [high |-> any_in(COMPLEXITY_KEYWORDS_high, lowered[text]),
         medium |-> any_in(COMPLEXITY_KEYWORDS_medium, lowered[text])]]

\* The module-level dict as the module body leaves it.
StaticKeywords ==
    [high |-> COMPLEXITY_KEYWORDS_high, medium |-> COMPLEXITY_KEYWORDS_medium,
     low |-> COMPLEXITY_KEYWORDS_low]

\* any(kw in last_user_msg for kw in COMPLEXITY_KEYWORDS[tier]) for the high
\* and the medium tier, read from the dict as it is when the call runs.
keywords_hit(text) ==
    IF COMPLEXITY_KEYWORDS = StaticKeywords THEN keyword_hits[text]
    ELSE [high |-> any_in(COMPLEXITY_KEYWORDS.high, lowered[text]),
          medium |-> any_in(COMPLEXITY_KEYWORDS.medium, lowered[text])]

\* Which texts of the model hit the low keyword list, evaluated once.
low_keyword_hits ==
    [text \in TextUniverse |-> any_in(COMPLEXITY_KEYWORDS_low, lowered[text])]

\* The checks with the low keywords consulted after the medium ones.
complexity_of_low_keywords(text) ==
    IF keywords_hit(text).high THEN "high"
    ELSE IF keywords_hit(text).medium THEN "medium"
    ELSE IF low_keyword_hits[text] THEN "low"
    ELSE IF Len(lowered[text]) > HighLength THEN "high"
    ELSE IF Len(lowered[text]) > MediumLength THEN "medium"
    ELSE "low"

\* The checks with the length test ahead of the medium keywords.
complexity_of_length_first(text) ==
    IF keywords_hit(text).high THEN "high"
    ELSE IF Len(lowered[text]) > HighLength THEN "high"
    ELSE IF keywords_hit(text).medium THEN "medium"
    ELSE IF Len(lowered[text]) > MediumLength THEN "medium"
    ELSE "low"

\* The checks with inclusive length thresholds.
complexity_of_inclusive(text) ==
    IF keywords_hit(text).high THEN "high"
    ELSE IF keywords_hit(text).medium THEN "medium"
    ELSE IF Len(lowered[text]) >= HighLength THEN "high"
    ELSE IF Len(lowered[text]) >= MediumLength THEN "medium"
    ELSE "low"

\* The keyword and length checks of _detect_complexity, last_user_msg being
\* text lower-cased.
complexity_of(text) ==
    IF keywords_hit(text).high THEN "high"
    ELSE IF keywords_hit(text).medium THEN "medium"
    ELSE IF Len(lowered[text]) > HighLength THEN "high"
    ELSE IF Len(lowered[text]) > MediumLength THEN "medium"
    ELSE "low"

\* SmartRouter._detect_complexity
detect_complexity(messages) ==
    IF messages = <<>> THEN "low"
    ELSE complexity_of(last_user_text_from(messages, Len(messages)))

\* get_complexity that, like the classifier, fails on a content that is not a
\* str.
get_complexity_str_only(messages) ==
    IF is_str(last_user_message(messages))
    THEN Return(detect_complexity(messages))
    ELSE Raise("AttributeError")

\* SmartRouter.get_complexity
get_complexity(messages) == Return(detect_complexity(messages))

\* The model that is second in price.
cheapest_model_second == <<"gemini", "gemini-2.0-flash">>

\* A cheapest model taken from the low tier of the balanced strategy.
cheapest_model_openai == <<"openai", "gpt-4o-mini">>

\* SmartRouter._cheapest_model
cheapest_model == <<"gemini", "gemini-1.5-flash">>

\* SmartRouter._best_model
best_model == <<"anthropic", "claude-sonnet-4-20250514">>

\* SmartRouter._balanced_model: the model_map of each tier.
model_map_low ==
    [openai |-> <<"openai", "gpt-4o-mini">>,
     anthropic |-> <<"anthropic", "claude-3-5-haiku-20241022">>,
     gemini |-> <<"gemini", "gemini-1.5-flash">>,
     grok |-> <<"grok", "grok-beta">>]

model_map_medium ==
    [openai |-> <<"openai", "gpt-4o-mini">>,
     anthropic |-> <<"anthropic", "claude-3-5-sonnet-20241022">>,
     gemini |-> <<"gemini", "gemini-1.5-flash">>,
     grok |-> <<"grok", "grok-2-latest">>]

model_map_high ==
    [openai |-> <<"openai", "gpt-4o">>,
     anthropic |-> <<"anthropic", "claude-sonnet-4-20250514">>,
     gemini |-> <<"gemini", "gemini-1.5-pro">>,
     grok |-> <<"grok", "grok-2-latest">>]

\* _balanced_model with a newer gemini model in the high tier, one that the
\* pricing table does not hold.
balanced_model_newer_gemini(complexity, preferred_provider) ==
    IF complexity = "low"
    THEN get(model_map_low, preferred_provider, <<"openai", "gpt-4o-mini">>)
    ELSE IF complexity = "medium"
    THEN get(model_map_medium, preferred_provider, <<"openai", "gpt-4o-mini">>)
    ELSE get([model_map_high EXCEPT !.gemini = <<"gemini", "gemini-2.5-pro">>],
             preferred_provider, <<"openai", "gpt-4o">>)

\* _balanced_model with the low-tier default in every tier.
balanced_model_one_default(complexity, preferred_provider) ==
    IF complexity = "low"
    THEN get(model_map_low, preferred_provider, <<"openai", "gpt-4o-mini">>)
    ELSE IF complexity = "medium"
    THEN get(model_map_medium, preferred_provider, <<"openai", "gpt-4o-mini">>)
    ELSE get(model_map_high, preferred_provider, <<"openai", "gpt-4o-mini">>)

\* SmartRouter._balanced_model
balanced_model(complexity, preferred_provider) ==
    IF complexity = "low"
    THEN get(model_map_low, preferred_provider, <<"openai", "gpt-4o-mini">>)
    ELSE IF complexity = "medium"
    THEN get(model_map_medium, preferred_provider, <<"openai", "gpt-4o-mini">>)
    ELSE get(model_map_high, preferred_provider, <<"openai", "gpt-4o">>)

\* select_model that honours a force_provider given without a force_model, as
\* the provider of the pair it selects.
select_model_provider_alone(strategy, messages, config) ==
    LET cfg == IF is_none(config) THEN <<>> ELSE config.some
    IN  IF get(cfg, "force_model", "") # ""
        THEN Return(<<get(cfg, "force_provider", "openai"), cfg.force_model>>)
        ELSE LET pair == IF strategy = "cost_optimized" THEN cheapest_model
                         ELSE IF strategy = "quality_optimized" THEN best_model
                         ELSE balanced_model(
                                  detect_complexity(messages),
                                  get(cfg, "preferred_provider", "openai"))
             IN  Return(<<get(cfg, "force_provider", pair[1]), pair[2]>>)

\* select_model that consults the strategy before the forced model.
select_model_strategy_first(strategy, messages, config) ==
    LET cfg == IF is_none(config) THEN <<>> ELSE config.some
    IN  IF strategy = "cost_optimized" THEN Return(cheapest_model)
        ELSE IF strategy = "quality_optimized" THEN Return(best_model)
        ELSE IF get(cfg, "force_model", "") # ""
        THEN Return(<<get(cfg, "force_provider", "openai"), cfg.force_model>>)
        ELSE Return(balanced_model(detect_complexity(messages),
                                   get(cfg, "preferred_provider", "openai")))

\* SmartRouter.select_model on a router of the given strategy.  config is
\* None or a dict; a missing or empty force_model is falsy.
select_model(strategy, messages, config) ==
    LET cfg == IF is_none(config) THEN <<>> ELSE config.some
    IN  IF get(cfg, "force_model", "") # ""
        THEN Return(<<get(cfg, "force_provider", "openai"), cfg.force_model>>)
        ELSE LET complexity == detect_complexity(messages)
             IN  IF strategy = "cost_optimized" THEN Return(cheapest_model)
                 ELSE IF strategy = "quality_optimized" THEN Return(best_model)
                 ELSE Return(balanced_model(
                          complexity, get(cfg, "preferred_provider", "openai")))

\* ------------------------------------------------------------------ cost.py

\* ModelPricing(input_per_1k=..., output_per_1k=...)
ModelPricing(input_per_1k, output_per_1k) ==
    [input_per_1k |-> input_per_1k, output_per_1k |-> output_per_1k]

\* MODEL_PRICING as the module body leaves it.
StaticPricing ==
    [model \in {"gpt-4o", "gpt-4o-mini", "gpt-4-turbo", "gpt-3.5-turbo",
                "claude-sonnet-4-20250514", "claude-3-5-sonnet-20241022",
                "claude-3-5-haiku-20241022", "claude-3-opus-20240229",
                "gemini-1.5-flash", "gemini-1.5-pro", "gemini-2.0-flash",
                "grok-beta", "grok-2-latest"} |->
        CASE model = "gpt-4o" ->
                 ModelPricing(float_literal(5, 3), float_literal(15, 3))
          [] model = "gpt-4o-mini" ->
                 ModelPricing(float_literal(15, 5), float_literal(6, 4))
          [] model = "gpt-4-turbo" ->
                 ModelPricing(float_literal(1, 2), float_literal(3, 2))
          [] model = "gpt-3.5-turbo" ->
                 ModelPricing(float_literal(5, 4), float_literal(15, 4))
          [] model = "claude-sonnet-4-20250514" ->
                 ModelPricing(float_literal(3, 3), float_literal(15, 3))
          [] model = "claude-3-5-sonnet-20241022" ->
                 ModelPricing(float_literal(3, 3), float_literal(15, 3))
          [] model = "claude-3-5-haiku-20241022" ->
                 ModelPricing(float_literal(8, 4), float_literal(4, 3))
          [] model = "claude-3-opus-20240229" ->
                 ModelPricing(float_literal(15, 3), float_literal(75, 3))
          [] model = "gemini-1.5-flash" ->
                 ModelPricing(float_literal(75, 6), float_literal(3, 4))
          [] model = "gemini-1.5-pro" ->
                 ModelPricing(float_literal(125, 5), float_literal(5, 3))
          [] model = "gemini-2.0-flash" ->
                 ModelPricing(float_literal(1, 4), float_literal(4, 4))
          [] model = "grok-beta" ->
                 ModelPricing(float_literal(5, 3), float_literal(15, 3))
          [] model = "grok-2-latest" ->
                 ModelPricing(float_literal(5, 3), float_literal(15, 3))]

\* Fallback pricing for unknown models
DEFAULT_PRICING == ModelPricing(float_literal(1, 2), float_literal(3, 2))

\* d.update(other) on a copy of d: other's entries replace or add by key.
update(d, other) ==
    [k \in DOMAIN d \cup DOMAIN other |->
        IF k \in DOMAIN other THEN other[k] ELSE d[k]]

\* A constructor that merges an overriding entry into the static entry of the
\* same model field by field: the input price of the override, the output
\* price of the static entry.
CostCalculator_merge_fields(custom_pricing) ==
    IF is_none(custom_pricing) \/ DOMAIN custom_pricing.some = {}
    THEN [pricing |-> MODEL_PRICING]
    ELSE [pricing |->
             [k \in DOMAIN MODEL_PRICING \cup DOMAIN custom_pricing.some |->
                 IF k \notin DOMAIN custom_pricing.some THEN MODEL_PRICING[k]
                 ELSE IF k \notin DOMAIN MODEL_PRICING
                 THEN custom_pricing.some[k]
                 ELSE ModelPricing(custom_pricing.some[k].input_per_1k,
                                   MODEL_PRICING[k].output_per_1k)]]

\* CostCalculator.__init__: self.pricing is a copy of MODEL_PRICING, updated
\* with custom_pricing when that is neither None nor empty.
CostCalculator(custom_pricing) ==
    IF is_none(custom_pricing) \/ DOMAIN custom_pricing.some = {}
    THEN [pricing |-> MODEL_PRICING]
    ELSE [pricing |-> update(MODEL_PRICING, custom_pricing.some)]

\* (tokens_input / 1000) * pricing.input_per_1k
\*     + (tokens_output / 1000) * pricing.output_per_1k
cost_of(pricing, tokens_input, tokens_output) ==
    float_add(float_mul(true_div(tokens_input, 1000), pricing.input_per_1k),
              float_mul(true_div(tokens_output, 1000), pricing.output_per_1k))

\* int(tokens_total * 0.3), int(tokens_total * 0.7)
estimated_input(tokens_total) ==
    int_of_float(float_mul(float_of_int(tokens_total), float_literal(3, 1)))

estimated_output(tokens_total) ==
    int_of_float(float_mul(float_of_int(tokens_total), float_literal(7, 1)))

\* calculate with the test for a total ahead of the test for both counts.
cost_with_total_first(pricing, tokens_total, tokens_input, tokens_output) ==
    IF ~is_none(tokens_total)
    THEN cost_of(pricing, estimated_input(tokens_total.some),
                 estimated_output(tokens_total.some))
    ELSE IF ~is_none(tokens_input) /\ ~is_none(tokens_output)
    THEN cost_of(pricing, tokens_input.some, tokens_output.some)
    ELSE float_zero

\* Lines 95 to 108 of calculate, pricing being the entry looked up: the path
\* is chosen by the counts that are supplied.
cost_with(pricing, tokens_total, tokens_input, tokens_output) ==
    IF ~is_none(tokens_input) /\ ~is_none(tokens_output)
    THEN cost_of(pricing, tokens_input.some, tokens_output.some)
    ELSE IF ~is_none(tokens_total)
    THEN cost_of(pricing, estimated_input(tokens_total.some),
                 estimated_output(tokens_total.some))
    ELSE float_zero

\* calculate that looks the model up with self.pricing[model].
calculate_no_default(self, model, tokens_total, tokens_input, tokens_output) ==
    IF model \notin DOMAIN self.pricing THEN Raise("KeyError")
    ELSE Return(cost_with(self.pricing[model], tokens_total, tokens_input,
                          tokens_output))

\* CostCalculator.calculate; each token count is None or an int that is not
\* negative.
calculate(self, model, tokens_total, tokens_input, tokens_output) ==
    Return(cost_with(get(self.pricing, model, DEFAULT_PRICING), tokens_total,
                     tokens_input, tokens_output))

\* CostCalculator.get_pricing
get_pricing(self, model) == Return(get(self.pricing, model, DEFAULT_PRICING))

\* CostCalculator.compare_models: a dict from each model of the list to its
\* cost on the input/output path.
compare_models(self, models, tokens_input, tokens_output) ==
    Return([model \in {models[i] : i \in DOMAIN models} |->
               calculate(self, model, None, Some(tokens_input),
                         Some(tokens_output)).value])

\* SmartRouter.estimate_cost: tokens is passed as tokens_total.
estimate_cost(self, model, tokens) ==
    calculate(self._cost_calculator, model, tokens, None, None)

\* The strategies SmartRouter.__init__ accepts.
strategies == {"cost_optimized", "quality_optimized", "balanced"}

\* A constructor that compares the strategy without regard to case.
SmartRouter_any_case(strategy) ==
    IF lower(strategy) \notin strategies THEN Raise("ValueError")
    ELSE Return([strategy |-> strategy,
                 _cost_calculator |-> CostCalculator(None)])

\* SmartRouter.__init__: the new router with its own CostCalculator, or
\* ValueError.
SmartRouter(strategy) ==
    IF strategy \notin strategies THEN Raise("ValueError")
    ELSE Return([strategy |-> strategy,
                 _cost_calculator |-> CostCalculator(None)])

\* ------------------------------------------------------- conversations

Conversations ==
    {<<>>, <<system_message, assistant_message>>, <<[role |-> "user"]>>}
    \cup {<<user_message(c)>> : c \in Contents}
    \cup {<<system_message, user_message(c), assistant_message>> : c \in Contents}
    \cup {<<earlier_user_message, user_message(c)>> : c \in Contents}

AllowLists ==
    {None, Some(<<>>), Some(<<"sales">>), Some(<<"GENERAL">>),
     Some(<<"SALES", "SUPPORT", "FAQ", "SMALLTALK">>),
     Some(<<"support", "Faq", "general">>), Some(<<"smalltalk", "vip">>)}

Providers == {"openai", "anthropic", "gemini", "grok", "azure"}

\* dicts over the given keys, each key present or not.
Dicts(values) ==
    UNION {{d \in [D -> UNION {values[k] : k \in DOMAIN values}] :
               \A k \in D : d[k] \in values[k]} : D \in SUBSET DOMAIN values}

Configs ==
    {None}
    \cup {Some(d) : d \in Dicts([preferred_provider |-> Providers])}
    \cup {Some(d) : d \in Dicts([force_model |-> {"", "my-model"},
                                  force_provider |-> {"azure"},
                                  preferred_provider |-> {"anthropic"}])}

StrategyInputs == strategies \cup {"Balanced", "cheapest", ""}

\* The five categories as written, in another case, and other strings.
AgentKindInputs ==
    {"SALES", "SUPPORT", "FAQ", "SMALLTALK", "GENERAL", "sales", "Support",
     "faq ", "VIP", ""}

\* ------------------------------------------------------------ cost inputs

\* The most CostCalculator objects callers construct.
MaxCalculators == 1

\* Every total from 0 to MaxTotal is tried, and some larger ones.
MaxTotal == 10

\* Models of the static table, a model only a caller prices, a name that
\* differs from a known one in case only, and the empty name.
ModelNames == {"gpt-4o-mini", "gpt-4o", "gemini-1.5-flash", "my-model",
               "GPT-4o", ""}

\* custom_pricing: absent, empty, one known model overridden in both prices,
\* a new model added next to a known model overridden in its output price.
CustomPricings ==
    {None, Some(<<>>),
     Some("gpt-4o" :> ModelPricing(float_literal(1, 3), float_literal(2, 3))),
     Some("my-model" :> ModelPricing(float_literal(2, 2), float_literal(4, 2))
          @@ "gpt-4o-mini" :>
                 ModelPricing(float_literal(15, 5), float_literal(1, 3)))}

Totals == (0..MaxTotal) \cup {90, 170, 1000}

TokenPairs ==
    {<<0, 0>>, <<500, 200>>, <<300, 700>>, <<27, 63>>, <<27, 62>>,
     <<1000, 500>>, <<0, 200>>, <<500, 0>>}

\* The ways calculate is called: a total alone, both counts, and every other
\* combination of supplied and missing counts.
TokenArgs ==
    {[total |-> Some(t), input |-> None, output |-> None] : t \in Totals}
    \cup {[total |-> None, input |-> Some(p[1]), output |-> Some(p[2])] :
             p \in TokenPairs}
    \cup {[total |-> t, input |-> i, output |-> o] :
             t \in {None, Some(1000)}, i \in {None, Some(500)},
             o \in {None, Some(200)}}

ModelLists ==
    {<<>>, <<"gpt-4o", "gpt-4o-mini", "my-model">>, <<"GPT-4o", "gpt-4o", "gpt-4o">>}

\* ------------------------------------------------------------ the machine

\* No router has been constructed; no call is in progress or has returned.
NoRouter == [none |-> TRUE]

Idle == [op |-> "idle"]

\* The most threads that handle requests at a time.
MaxThreads == 2

Threads == 1..MaxThreads

TypeOK ==
    /\ router = NoRouter
       \/ /\ DOMAIN router = {"strategy", "_cost_calculator"}
          /\ router.strategy \in strategies
          /\ DOMAIN router._cost_calculator = {"pricing"}
    /\ call.op \in {"idle", "SmartRouter", "select_agent_kind", "select_model",
                    "get_complexity", "get_agent_info", "CostCalculator",
                    "calculate", "get_pricing", "compare_models",
                    "estimate_cost"}
    /\ earlier.op \in {"idle", "select_agent_kind", "select_model",
                       "get_complexity", "get_agent_info", "calculate",
                       "compare_models", "estimate_cost"}
    /\ DOMAIN MODEL_PRICING = DOMAIN StaticPricing
    /\ DOMAIN COMPLEXITY_KEYWORDS = {"high", "medium", "low"}
    /\ Len(calculators) <= MaxCalculators
    /\ \A c \in DOMAIN calculators : DOMAIN calculators[c] = {"pricing"}
    /\ constructed_with \in Seq(CustomPricings)
    /\ Len(constructed_with) = Len(calculators)
    /\ DOMAIN threads = Threads
    /\ \A t \in Threads :
           threads[t].pc \in {"idle", "last_msg", "classify", "gate", "config",
                              "complexity", "strategy", "pricing", "cost",
                              "done"}

\* The modules have been imported; no object has been constructed and no
\* thread handles a request.
Init ==
    /\ router = NoRouter
    /\ call = Idle
    /\ MODEL_PRICING = StaticPricing
    /\ COMPLEXITY_KEYWORDS = StaticKeywords
    /\ calculators = <<>>
    /\ constructed_with = <<>>
    /\ earlier = Idle
    /\ threads = [t \in Threads |-> [pc |-> "idle"]]

\* What a call that is made and returns in one piece leaves as it is.
tables == <<MODEL_PRICING, COMPLEXITY_KEYWORDS>>

bystanders == <<earlier, threads>>

\* router = SmartRouter(strategy), for any strategy string: the variable keeps
\* its value when the constructor raises.
ConstructOf(strategy_inputs) ==
    /\ call = Idle
    /\ \E strategy \in strategy_inputs :
           LET r == SmartRouter(strategy)
           IN  /\ call' = [op |-> "SmartRouter", strategy |-> strategy,
                           result |-> r]
               /\ router' = IF r.ok THEN r.value ELSE router
    /\ UNCHANGED <<tables, calculators, constructed_with, bystanders>>

Construct == ConstructOf(StrategyInputs)

\* coordinator.select_agent_kind(AgentContext(messages), allowed_agents), with
\* the arguments taken from the given sets
SelectAgentKindOf(conversations, allow_lists) ==
    /\ call = Idle
    /\ \E messages \in conversations, allowed_agents \in allow_lists :
           call' = [op |-> "select_agent_kind", messages |-> messages,
                    allowed_agents |-> allowed_agents,
                    result |-> select_agent_kind(messages, allowed_agents)]
    /\ UNCHANGED <<router, tables, calculators, constructed_with, bystanders>>

SelectAgentKind == SelectAgentKindOf(Conversations, AllowLists)

\* router.select_model(messages, config), on a router that exists
SelectModelOf(conversations, configs) ==
    /\ call = Idle
    /\ router # NoRouter
    /\ \E messages \in conversations, config \in configs :
           call' = [op |-> "select_model", messages |-> messages,
                    config |-> config, strategy |-> router.strategy,
                    result |-> select_model(router.strategy, messages, config)]
    /\ UNCHANGED <<router, tables, calculators, constructed_with, bystanders>>

SelectModel == SelectModelOf(Conversations, Configs)

\* router.get_complexity(messages), on a router that exists
GetComplexityOf(conversations) ==
    /\ call = Idle
    /\ router # NoRouter
    /\ \E messages \in conversations :
           call' = [op |-> "get_complexity", messages |-> messages,
                    result |-> get_complexity(messages)]
    /\ UNCHANGED <<router, tables, calculators, constructed_with, bystanders>>

GetComplexity == GetComplexityOf(Conversations)

\* coordinator.get_agent_info(agent_kind)
GetAgentInfoOf(agent_kinds) ==
    /\ call = Idle
    /\ \E agent_kind \in agent_kinds :
           call' = [op |-> "get_agent_info", agent_kind |-> agent_kind,
                    result |-> get_agent_info(agent_kind)]
    /\ UNCHANGED <<router, tables, calculators, constructed_with, bystanders>>

GetAgentInfo == GetAgentInfoOf(AgentKindInputs)

\* The caller takes the result and goes on to its next call.
Done ==
    /\ call # Idle
    /\ call' = Idle
    /\ UNCHANGED <<router, tables, calculators, constructed_with, bystanders>>

\* The caller makes one call at a time.
Next ==
    \/ Construct
    \/ SelectAgentKind
    \/ SelectModel
    \/ GetComplexity
    \/ GetAgentInfo
    \/ Done

Spec == Init /\ [][Next]_vars

\* ------------------------------------------------- the machine of the costs

\* A constructor that keeps MODEL_PRICING itself as self.pricing, so that the
\* update with custom_pricing reaches the module-level dict.
MODEL_PRICING_after_init_shared(custom_pricing) ==
    IF is_none(custom_pricing) \/ DOMAIN custom_pricing.some = {}
    THEN MODEL_PRICING
    ELSE update(MODEL_PRICING, custom_pricing.some)

\* The module-level dict once CostCalculator.__init__ has run: self.pricing
\* is a new dict, {**MODEL_PRICING}, and the update acts on that one.
MODEL_PRICING_after_init(custom_pricing) == MODEL_PRICING

\* calculators.append(CostCalculator(custom_pricing)): a caller constructs a
\* further calculator; calculator names its position.
NewCalculatorOf(custom_pricings) ==
    /\ call = Idle
    /\ Len(calculators) < MaxCalculators
    /\ \E custom_pricing \in custom_pricings :
           /\ calculators' = Append(calculators, CostCalculator(custom_pricing))
           /\ MODEL_PRICING' = MODEL_PRICING_after_init(custom_pricing)
           /\ constructed_with' = Append(constructed_with, custom_pricing)
           /\ call' = [op |-> "CostCalculator",
                       custom_pricing |-> custom_pricing,
                       calculator |-> Len(calculators) + 1]
    /\ UNCHANGED <<router, COMPLEXITY_KEYWORDS, bystanders>>

NewCalculator == NewCalculatorOf(CustomPricings)

\* calculators[calculator].calculate(model, tokens_total, tokens_input,
\* tokens_output)
CalculateOf(models, token_args) ==
    /\ call = Idle
    /\ \E calculator \in DOMAIN calculators, model \in models,
          tokens \in token_args :
           call' = [op |-> "calculate", calculator |-> calculator,
                    model |-> model, tokens_total |-> tokens.total,
                    tokens_input |-> tokens.input,
                    tokens_output |-> tokens.output,
                    result |-> calculate(calculators[calculator], model,
                                         tokens.total, tokens.input,
                                         tokens.output)]
    /\ UNCHANGED <<router, tables, calculators, constructed_with, bystanders>>

Calculate == CalculateOf(ModelNames, TokenArgs)

\* calculators[calculator].get_pricing(model)
GetPricing ==
    /\ call = Idle
    /\ \E calculator \in DOMAIN calculators, model \in ModelNames :
           call' = [op |-> "get_pricing", calculator |-> calculator,
                    model |-> model,
                    result |-> get_pricing(calculators[calculator], model)]
    /\ UNCHANGED <<router, tables, calculators, constructed_with, bystanders>>

\* calculators[calculator].compare_models(models, tokens_input, tokens_output)
CompareModelsOf(model_lists, token_pairs) ==
    /\ call = Idle
    /\ \E calculator \in DOMAIN calculators, models \in model_lists,
          tokens \in token_pairs :
           call' = [op |-> "compare_models", calculator |-> calculator,
                    models |-> models, tokens_input |-> tokens[1],
                    tokens_output |-> tokens[2],
                    result |-> compare_models(calculators[calculator], models,
                                              tokens[1], tokens[2])]
    /\ UNCHANGED <<router, tables, calculators, constructed_with, bystanders>>

CompareModels == CompareModelsOf(ModelLists, {<<1000, 500>>, <<500, 200>>})

\* router.estimate_cost(model, tokens), on a router that exists
EstimateCostOf(models, token_counts) ==
    /\ call = Idle
    /\ router # NoRouter
    /\ \E model \in models, tokens \in token_counts :
           call' = [op |-> "estimate_cost", model |-> model, tokens |-> tokens,
                    result |-> estimate_cost(router, model, tokens)]
    /\ UNCHANGED <<router, tables, calculators, constructed_with, bystanders>>

EstimateCost ==
    EstimateCostOf(ModelNames, {None} \cup {Some(t) : t \in Totals})

\* The calls on the cost model, one at a time; the strategy of the router has
\* no part in them.
CostNext ==
    \/ ConstructOf({"balanced", "cheapest"})
    \/ NewCalculator
    \/ Calculate
    \/ GetPricing
    \/ CompareModels
    \/ EstimateCost
    \/ Done

CostSpec == Init /\ [][CostNext]_vars

\* ------------------------------------- the machine of the repeated calls

\* A few arguments of each kind, for sequences in which calls recur.
FewConversations ==
    {<<>>, <<user_message(Str("PRICE"))>>,
     <<system_message, user_message(Str("Analyze")), assistant_message>>,
     <<user_message(List(<<[type |-> "text", text |-> "what"]>>))>>}

FewAllowLists == {None, Some(<<"sales">>)}

FewConfigs == {None, Some([force_model |-> "my-model"])}

FewModels == {"gpt-4o", "my-model"}

FewTokenArgs ==
    {[total |-> Some(1000), input |-> None, output |-> None],
     [total |-> None, input |-> Some(500), output |-> Some(200)]}

\* The router is constructed once, so that router names one object.
ConstructOnce ==
    /\ router = NoRouter
    /\ Construct

\* The caller takes the result, keeps the call and its result in mind, and
\* goes on.
Remember ==
    /\ call # Idle
    /\ call.op \notin {"SmartRouter", "CostCalculator"}
    /\ earlier = Idle
    /\ earlier' = call
    /\ call' = Idle
    /\ UNCHANGED <<router, tables, calculators, constructed_with, threads>>

\* Any sequence of calls and constructions.
FrameNext ==
    \/ ConstructOnce
    \/ NewCalculator
    \/ SelectAgentKindOf(FewConversations, FewAllowLists)
    \/ GetAgentInfoOf({"SALES", "sales"})
    \/ SelectModelOf(FewConversations, FewConfigs)
    \/ GetComplexityOf(FewConversations)
    \/ EstimateCostOf(FewModels, {None, Some(1000)})
    \/ CalculateOf(FewModels, FewTokenArgs)
    \/ CompareModelsOf({<<"gpt-4o", "my-model">>}, {<<1000, 500>>})
    \/ Remember
    \/ Done

FrameSpec == Init /\ [][FrameNext]_vars

\* ------------------------------------------- the machine of the routing

\* Conversations of each tier: none, a greeting, a question, a request for an
\* analysis, and a long text without keywords.
RouteConversations ==
    {<<>>, <<user_message(Str("Hola"))>>, <<user_message(Str("What is"))>>,
     <<system_message, user_message(Str("Analyze"))>>,
     <<user_message(Str(filler(HighLength + MediumLength)))>>}

\* Every preferred provider, known or not, and a forced model.
RouteConfigs ==
    {None, Some([force_model |-> "my-model"])}
    \cup {Some([preferred_provider |-> p]) : p \in Providers}

\* The models of the static pricing table, as a list for compare_models.
KnownModels ==
    <<"gpt-4o", "gpt-4o-mini", "gpt-4-turbo", "gpt-3.5-turbo",
      "claude-sonnet-4-20250514", "claude-3-5-sonnet-20241022",
      "claude-3-5-haiku-20241022", "claude-3-opus-20240229",
      "gemini-1.5-flash", "gemini-1.5-pro", "gemini-2.0-flash", "grok-beta",
      "grok-2-latest">>

\* The models a caller asks the cost of: the known ones and one of its own.
RouteModels == {KnownModels[i] : i \in DOMAIN KnownModels} \cup {"my-model"}

\* The caller keeps the pair select_model returned in mind and goes on, to
\* price it.
RememberRoute ==
    /\ call.op = "select_model"
    /\ Remember

\* A request is routed and then priced.
RouteNext ==
    \/ ConstructOnce
    \/ NewCalculatorOf({None})
    \/ SelectModelOf(RouteConversations, RouteConfigs)
    \/ RememberRoute
    \/ EstimateCostOf(RouteModels, {Some(1000), Some(90)})
    \/ CompareModelsOf({KnownModels}, {<<1000, 500>>, <<1, 0>>, <<0, 1>>})
    \/ Done

RouteSpec == Init /\ [][RouteNext]_vars

\* --------------------------------------------- the machine of the threads

\* The requests that threads handle.
ThreadConversations ==
    {<<user_message(Str("PRICE"))>>,
     <<system_message, user_message(List(<<[type |-> "text", text |-> "what"]>>))>>}

\* The token counts that threads pass to calculate.
ThreadTokenArgs == {[total |-> Some(1000), input |-> None, output |-> None]}

\* A lookup that files the default under the missing key, as
\* self.pricing.setdefault(model, DEFAULT_PRICING) does.
pricing_after_setdefault(pricing, model) ==
    IF model \in DOMAIN pricing THEN pricing
    ELSE [k \in DOMAIN pricing \cup {model} |->
             IF k = model THEN DEFAULT_PRICING ELSE pricing[k]]

\* The dict self.pricing once self.pricing.get(model, DEFAULT_PRICING) has
\* run: get only reads.
pricing_after_get(pricing, model) == pricing

\* A coordinator, a router of any strategy and a calculator, without custom
\* pricing or with a model overridden, have been constructed and are shared
\* by the threads.
ThreadInit ==
    /\ MODEL_PRICING = StaticPricing
    /\ COMPLEXITY_KEYWORDS = StaticKeywords
    /\ \E strategy \in strategies : router = SmartRouter(strategy).value
    /\ \E custom_pricing \in {c \in CustomPricings :
                                  is_none(c) \/ DOMAIN c.some = {"gpt-4o"}} :
           /\ calculators = <<CostCalculator(custom_pricing)>>
           /\ constructed_with = <<custom_pricing>>
    /\ call = Idle
    /\ earlier = Idle
    /\ threads = [t \in Threads |-> [pc |-> "idle"]]

\* What a step of a thread leaves as it is, the calculators apart.
unshared == <<router, call, tables, constructed_with, earlier>>

\* Thread t is called with select_agent_kind(AgentContext(messages),
\* allowed_agents).
BeginSelectAgentKind ==
    /\ \E t \in Threads :
           /\ threads[t].pc = "idle"
           /\ \E messages \in ThreadConversations,
                 allowed_agents \in {Some(<<"support">>)} :
                  threads' = [threads EXCEPT ![t] =
                      [pc |-> "last_msg", op |-> "select_agent_kind",
                       messages |-> messages, allowed_agents |-> allowed_agents]]
    /\ UNCHANGED <<unshared, calculators>>

\* last_msg = context.last_user_message
StepLastMsg ==
    /\ \E t \in Threads :
           /\ threads[t].pc = "last_msg"
           /\ threads' = [threads EXCEPT ![t] =
                  [pc |-> "classify", last_msg |-> last_user_message(@.messages)]
                  @@ @]
    /\ UNCHANGED <<unshared, calculators>>

\* The rule chain: suggested, or the AttributeError of a last_msg that is not
\* a str.
StepClassify ==
    /\ \E t \in Threads :
           /\ threads[t].pc = "classify"
           /\ threads' = [threads EXCEPT ![t] =
                  IF ~is_str(@.last_msg)
                  THEN [pc |-> "done", result |-> Raise("AttributeError")] @@ @
                  ELSE [pc |-> "gate",
                        suggested |-> suggested_kind(@.last_msg.str)] @@ @]
    /\ UNCHANGED <<unshared, calculators>>

\* The plan-based gating and the return.
StepGate ==
    /\ \E t \in Threads :
           /\ threads[t].pc = "gate"
           /\ threads' = [threads EXCEPT ![t] =
                  [pc |-> "done",
                   result |-> Return(gate(@.suggested, @.allowed_agents))] @@ @]
    /\ UNCHANGED <<unshared, calculators>>

\* Thread t is called with router.select_model(messages, config).
BeginSelectModel ==
    /\ \E t \in Threads :
           /\ threads[t].pc = "idle"
           /\ \E messages \in ThreadConversations, config \in FewConfigs :
                  threads' = [threads EXCEPT ![t] =
                      [pc |-> "config", op |-> "select_model",
                       messages |-> messages, config |-> config]]
    /\ UNCHANGED <<unshared, calculators>>

\* config = config or {}; a forced model is returned at once.
StepConfig ==
    /\ \E t \in Threads :
           /\ threads[t].pc = "config"
           /\ threads' = [threads EXCEPT ![t] =
                  LET cfg == IF is_none(@.config) THEN <<>> ELSE @.config.some
                  IN  IF get(cfg, "force_model", "") # ""
                      THEN [pc |-> "done",
                            result |-> Return(<<get(cfg, "force_provider", "openai"),
                                                cfg.force_model>>)] @@ @
                      ELSE [pc |-> "complexity", cfg |-> cfg] @@ @]
    /\ UNCHANGED <<unshared, calculators>>

\* Thread t is called with router.get_complexity(messages).
BeginGetComplexity ==
    /\ \E t \in Threads :
           /\ threads[t].pc = "idle"
           /\ \E messages \in ThreadConversations :
                  threads' = [threads EXCEPT ![t] =
                      [pc |-> "complexity", op |-> "get_complexity",
                       messages |-> messages]]
    /\ UNCHANGED <<unshared, calculators>>

\* complexity = self._detect_complexity(messages), which reads
\* COMPLEXITY_KEYWORDS; get_complexity returns it.
StepComplexity ==
    /\ \E t \in Threads :
           /\ threads[t].pc = "complexity"
           /\ threads' = [threads EXCEPT ![t] =
                  IF @.op = "get_complexity"
                  THEN [pc |-> "done",
                        result |-> Return(detect_complexity(@.messages))] @@ @
                  ELSE [pc |-> "strategy",
                        complexity |-> detect_complexity(@.messages)] @@ @]
    /\ UNCHANGED <<unshared, calculators>>

\* The dispatch on self.strategy, read now, and the return.
StepStrategy ==
    /\ \E t \in Threads :
           /\ threads[t].pc = "strategy"
           /\ threads' = [threads EXCEPT ![t] =
                  [pc |-> "done",
                   result |->
                       Return(IF router.strategy = "cost_optimized"
                              THEN cheapest_model
                              ELSE IF router.strategy = "quality_optimized"
                              THEN best_model
                              ELSE balanced_model(
                                       @.complexity,
                                       get(@.cfg, "preferred_provider", "openai")))]
                  @@ @]
    /\ UNCHANGED <<unshared, calculators>>

\* Thread t is called with calculators[calculator].calculate(model, ...).
BeginCalculate ==
    /\ \E t \in Threads :
           /\ threads[t].pc = "idle"
           /\ \E calculator \in DOMAIN calculators, model \in FewModels,
                 tokens \in ThreadTokenArgs :
                  threads' = [threads EXCEPT ![t] =
                      [pc |-> "pricing", op |-> "calculate",
                       calculator |-> calculator, model |-> model,
                       tokens_total |-> tokens.total,
                       tokens_input |-> tokens.input,
                       tokens_output |-> tokens.output]]
    /\ UNCHANGED <<unshared, calculators>>

\* pricing = self.pricing.get(model, DEFAULT_PRICING), on the shared dict
StepPricing ==
    /\ \E t \in Threads :
           /\ threads[t].pc = "pricing"
           /\ threads' = [threads EXCEPT ![t] =
                  [pc |-> "cost",
                   pricing |-> get(calculators[@.calculator].pricing, @.model,
                                   DEFAULT_PRICING)] @@ @]
           /\ calculators' =
                  [calculators EXCEPT ![threads[t].calculator].pricing =
                      pricing_after_get(@, threads[t].model)]
    /\ UNCHANGED unshared

\* The cost at the entry looked up, and the return.
StepCost ==
    /\ \E t \in Threads :
           /\ threads[t].pc = "cost"
           /\ threads' = [threads EXCEPT ![t] =
                  [pc |-> "done",
                   result |-> Return(cost_with(@.pricing, @.tokens_total,
                                               @.tokens_input, @.tokens_output))]
                  @@ @]
    /\ UNCHANGED <<unshared, calculators>>

\* The thread hands the result to its request and is free again.
Finish ==
    /\ \E t \in Threads :
           /\ threads[t].pc = "done"
           /\ threads' = [threads EXCEPT ![t] = [pc |-> "idle"]]
    /\ UNCHANGED <<unshared, calculators>>

\* The threads take their steps in any order.
ThreadNext ==
    \/ BeginSelectAgentKind
    \/ StepLastMsg
    \/ StepClassify
    \/ StepGate
    \/ BeginSelectModel
    \/ StepConfig
    \/ BeginGetComplexity
    \/ StepComplexity
    \/ StepStrategy
    \/ BeginCalculate
    \/ StepPricing
    \/ StepCost
    \/ Finish

ThreadSpec == ThreadInit /\ [][ThreadNext]_vars

\* ------------------------------------------------------------ properties

\* What the properties say of a conversation, stated apart from the operations:
\* the position of its last message of role user (0 when it has none), that
\* message's content ("" when it has none), and the text of that content.
LastUserIndex(messages) ==
    LET users == {i \in DOMAIN messages :
                     "role" \in DOMAIN messages[i] /\ messages[i].role = "user"}
    IN  IF users = {} THEN 0 ELSE CHOOSE i \in users : \A j \in users : j <= i

LastUserContent(messages) ==
    IF LastUserIndex(messages) = 0 THEN Str("")
    ELSE get(messages[LastUserIndex(messages)], "content", Str(""))

LastUserText(messages) == content_text(LastUserContent(messages))

AgentKinds == {"SALES", "SUPPORT", "FAQ", "SMALLTALK", "GENERAL"}

RuleOrder == <<"SMALLTALK", "SALES", "SUPPORT", "FAQ">>

\* The category of the first rule of RuleOrder a text matches, else GENERAL.
FirstMatch(text) ==
    LET hits == {n \in DOMAIN RuleOrder : rule_hits[text][RuleOrder[n]]}
    IN  IF hits = {} THEN "GENERAL"
        ELSE RuleOrder[CHOOSE n \in hits : \A k \in hits : n <= k]

\* The per-request config as a dict, and whether it forces a model.
ConfigDict(config) == IF is_none(config) THEN <<>> ELSE config.some

ForcesModel(config) ==
    /\ "force_model" \in DOMAIN ConfigDict(config)
    /\ ConfigDict(config).force_model # ""

PreferredProvider(config) ==
    IF "preferred_provider" \in DOMAIN ConfigDict(config)
    THEN ConfigDict(config).preferred_provider ELSE "openai"

KnownProviders == {"openai", "anthropic", "gemini", "grok"}

Tiers == {"low", "medium", "high"}

\* C1: for every conversation (empty, without a user message, with a text or a
\* structured content in the last user message) and every allow-list,
\* select_agent_kind returns normally, and returns one of the five categories.
C1_AlwaysOneCategory ==
    call.op = "select_agent_kind" =>
        /\ call.result.ok
        /\ call.result.value \in AgentKinds

\* C2: without an allow-list, select_agent_kind on a text message returns the
\* category of the first rule that matches it in the order SMALLTALK, SALES,
\* SUPPORT, FAQ, and GENERAL when none matches; a message with both a SALES
\* and a SUPPORT keyword is SALES.
C2_FirstMatchingRule ==
    ( /\ call.op = "select_agent_kind"
      /\ is_none(call.allowed_agents)
      /\ is_str(LastUserContent(call.messages)) ) =>
        LET text == LastUserContent(call.messages).str
        IN  /\ call.result = Return(FirstMatch(text))
            /\ (rule_hits[text].SALES /\ rule_hits[text].SUPPORT) =>
                   call.result = Return("SALES")

C2_Witness ==
    /\ call.op = "select_agent_kind"
    /\ is_none(call.allowed_agents)
    /\ is_str(LastUserContent(call.messages))
    /\ rule_hits[LastUserContent(call.messages).str].SALES
    /\ rule_hits[LastUserContent(call.messages).str].SUPPORT
    /\ call.result = Return("SALES")

\* The allow-list of a call as the set of its upper-cased entries.
AllowedSet(allowed_agents) ==
    {upper(allowed_agents.some[n]) : n \in DOMAIN allowed_agents.some}

\* C3 as stated: for every message and every supplied allow-list, the
\* rule-selected category is returned when the upper-cased allow-list holds it,
\* and GENERAL otherwise.
C3_GatedBySuppliedList ==
    ( /\ call.op = "select_agent_kind"
      /\ ~is_none(call.allowed_agents)
      /\ is_str(LastUserContent(call.messages)) ) =>
        LET rule == FirstMatch(LastUserContent(call.messages).str)
        IN  call.result =
                Return(IF rule \in AllowedSet(call.allowed_agents)
                       THEN rule ELSE "GENERAL")

\* C3, amended: the same for every supplied allow-list that is not empty.
C3_GatedByNonEmptyList ==
    ( /\ call.op = "select_agent_kind"
      /\ ~is_none(call.allowed_agents)
      /\ call.allowed_agents.some # <<>>
      /\ is_str(LastUserContent(call.messages)) ) =>
        LET rule == FirstMatch(LastUserContent(call.messages).str)
        IN  call.result =
                Return(IF rule \in AllowedSet(call.allowed_agents)
                       THEN rule ELSE "GENERAL")

C3_Witness ==
    /\ call.op = "select_agent_kind"
    /\ ~is_none(call.allowed_agents)
    /\ call.allowed_agents.some # <<>>
    /\ is_str(LastUserContent(call.messages))
    /\ FirstMatch(LastUserContent(call.messages).str) = "SALES"
    /\ AllowedSet(call.allowed_agents) \cap {"SALES", "GENERAL"} = {}
    /\ call.result = Return("GENERAL")

\* C4: under strategy balanced and without a forced model, select_model
\* returns the pair of (tier, preferred provider), the tier being that of
\* get_complexity and the preferred provider openai by default: the preferred
\* provider's own pair when it is one of the four known, else the openai pair
\* of the tier (gpt-4o-mini for low and medium, gpt-4o for high); 300
\* characters without a keyword and provider openai give (openai, gpt-4o).
C4_BalancedPair ==
    ( /\ call.op = "select_model"
      /\ call.strategy = "balanced"
      /\ ~ForcesModel(call.config) ) =>
        LET tier == get_complexity(call.messages).value
            preferred == PreferredProvider(call.config)
            text == LastUserText(call.messages)
            designated == CASE tier = "low" -> model_map_low
                            [] tier = "medium" -> model_map_medium
                            [] tier = "high" -> model_map_high
        IN  /\ call.result.ok
            /\ preferred \in KnownProviders =>
                   /\ call.result.value = designated[preferred]
                   /\ call.result.value[1] = preferred
            /\ preferred \notin KnownProviders =>
                   call.result.value =
                       <<"openai", IF tier = "high" THEN "gpt-4o" ELSE "gpt-4o-mini">>
            /\ ( /\ Len(text) = 300
                 /\ ~keyword_hits[text].high
                 /\ ~keyword_hits[text].medium
                 /\ preferred = "openai" ) =>
                   call.result.value = <<"openai", "gpt-4o">>

C4_Witness ==
    /\ call.op = "select_model"
    /\ call.strategy = "balanced"
    /\ ~ForcesModel(call.config)
    /\ PreferredProvider(call.config) \notin KnownProviders
    /\ Len(LastUserText(call.messages)) = 300
    /\ ~keyword_hits[LastUserText(call.messages)].high
    /\ ~keyword_hits[LastUserText(call.messages)].medium
    /\ call.result = Return(<<"openai", "gpt-4o">>)

\* C5: when the config forces a model, select_model returns the forced
\* provider (openai when none is given) with the forced model, whatever the
\* strategy, the messages and the preferred provider.
C5_ForcedModel ==
    (call.op = "select_model" /\ ForcesModel(call.config)) =>
        call.result =
            Return(<<IF "force_provider" \in DOMAIN ConfigDict(call.config)
                     THEN ConfigDict(call.config).force_provider ELSE "openai",
                     ConfigDict(call.config).force_model>>)

C5_Witness ==
    /\ call.op = "select_model"
    /\ ForcesModel(call.config)
    /\ call.strategy = "cost_optimized"
    /\ "force_provider" \notin DOMAIN ConfigDict(call.config)
    /\ "preferred_provider" \in DOMAIN ConfigDict(call.config)
    /\ keyword_hits[LastUserText(call.messages)].high
    /\ call.result = Return(<<"openai", "my-model">>)

\* C6: without a forced model, a cost_optimized router returns (gemini,
\* gemini-1.5-flash) and a quality_optimized router (anthropic,
\* claude-sonnet-4-20250514), for every conversation and every config.
C6_FixedPairs ==
    (call.op = "select_model" /\ ~ForcesModel(call.config)) =>
        /\ call.strategy = "cost_optimized" =>
               call.result = Return(<<"gemini", "gemini-1.5-flash">>)
        /\ call.strategy = "quality_optimized" =>
               call.result = Return(<<"anthropic", "claude-sonnet-4-20250514">>)

C6_Witness ==
    /\ call.op = "select_model"
    /\ ~ForcesModel(call.config)
    /\ call.strategy = "cost_optimized"
    /\ PreferredProvider(call.config) = "anthropic"
    /\ keyword_hits[LastUserText(call.messages)].high
    /\ call.result = Return(<<"gemini", "gemini-1.5-flash">>)

\* C7: for every conversation (empty, without a user message, with a text or a
\* structured content in the last user message), get_complexity returns
\* normally, and returns one of low, medium, high.
C7_AlwaysOneTier ==
    call.op = "get_complexity" =>
        /\ call.result.ok
        /\ call.result.value \in Tiers

C7_Witness ==
    /\ call.op = "get_complexity"
    /\ is_list(LastUserContent(call.messages))
    /\ call.result.ok
    /\ call.result.value \in Tiers

C10_Construction ==
    [][ (call.op = "idle" /\ call'.op = "SmartRouter") =>
            IF call'.strategy \in {"cost_optimized", "quality_optimized", "balanced"}
            THEN /\ call'.result.ok
                 /\ call'.result.value.strategy = call'.strategy
                 /\ router' = call'.result.value
            ELSE /\ call'.result = Raise("ValueError")
                 /\ router' = router ]_vars

C10_Witness ==
    /\ call.op = "SmartRouter"
    /\ call.strategy = "Balanced"
    /\ call.result = Raise("ValueError")
    /\ router # NoRouter
    /\ router.strategy = "quality_optimized"

\* ------------------------------------------------------ properties of costs

\* What the properties say of a calculate call, stated apart from the
\* operation: the calculator called, its pricing entry for the model, and
\* whether both counts, or the total alone, were supplied.
Called == calculators[call.calculator]

BothCounts == ~is_none(call.tokens_input) /\ ~is_none(call.tokens_output)

TotalAlone ==
    ~is_none(call.tokens_total) /\ is_none(call.tokens_input)
        /\ is_none(call.tokens_output)

\* C11: a calculate call with both counts returns input_tokens/1000 times the
\* input price plus output_tokens/1000 times the output price of the model's
\* pricing entry, and for gpt-4o-mini at its static prices with 500 input and
\* 200 output tokens that is 0.000195.
C11_InputOutputCost ==
    (call.op = "calculate" /\ BothCounts /\ call.model \in DOMAIN Called.pricing) =>
        /\ call.result =
               Return(float_add(
                   float_mul(true_div(call.tokens_input.some, 1000),
                             Called.pricing[call.model].input_per_1k),
                   float_mul(true_div(call.tokens_output.some, 1000),
                             Called.pricing[call.model].output_per_1k)))
        /\ (/\ call.model = "gpt-4o-mini"
            /\ Called.pricing[call.model] = StaticPricing["gpt-4o-mini"]
            /\ call.tokens_input = Some(500)
            /\ call.tokens_output = Some(200))
               => call.result = Return(float_literal(195, 6))

\* The 30% and the 70% share of a total, each truncated to an integer.
InputShare(total) == (3 * total) \div 10

OutputShare(total) == (7 * total) \div 10

\* C12: a calculate call with a total T alone returns what calculate returns
\* for the same model with trunc(0.3 T) input and trunc(0.7 T) output tokens;
\* with T = 1000 that is 300 input and 700 output tokens.
C12_TotalSplit ==
    (call.op = "calculate" /\ TotalAlone) =>
        /\ InputShare(1000) = 300 /\ OutputShare(1000) = 700
        /\ call.result =
               calculate(Called, call.model, None,
                         Some(InputShare(call.tokens_total.some)),
                         Some(OutputShare(call.tokens_total.some)))

\* The default entry: input 0.01 and output 0.03 per 1000 tokens.
DefaultEntry == [input_per_1k |-> float_literal(1, 2),
                 output_per_1k |-> float_literal(3, 2)]

SuppliedEntries(custom_pricing) ==
    IF is_none(custom_pricing) THEN <<>> ELSE custom_pricing.some

C19_OverridesWholeEntries ==
    call.op = "get_pricing" =>
        LET C == SuppliedEntries(constructed_with[call.calculator])
        IN  call.result =
                Return(IF call.model \in DOMAIN C THEN C[call.model]
                       ELSE IF call.model \in DOMAIN StaticPricing
                       THEN StaticPricing[call.model]
                       ELSE DefaultEntry)

C19_Witness ==
    /\ call.op = "get_pricing"
    /\ call.model = "gpt-4o-mini"
    /\ "gpt-4o-mini" \in DOMAIN SuppliedEntries(constructed_with[call.calculator])
    /\ call.result.value.input_per_1k = StaticPricing["gpt-4o-mini"].input_per_1k
    /\ call.result.value.output_per_1k # StaticPricing["gpt-4o-mini"].output_per_1k

\* ------------------------------------------- properties of the categories

\* C16: without an allow-list, a conversation whose last user message is
\* "Hola!" is classified SMALLTALK.
C16_HolaIsSmalltalk ==
    ( /\ call.op = "select_agent_kind"
      /\ is_none(call.allowed_agents)
      /\ LastUserContent(call.messages) = Str("Hola!") ) =>
        call.result = Return("SMALLTALK")

\* C17 as stated: without an allow-list, every text message whose lower-cased
\* text contains a SALES keyword is classified SALES.
C17_AnySalesKeyword ==
    ( /\ call.op = "select_agent_kind"
      /\ is_none(call.allowed_agents)
      /\ is_str(LastUserContent(call.messages))
      /\ rule_hits[LastUserContent(call.messages).str].SALES ) =>
        call.result = Return("SALES")

\* C17 as amended: without an allow-list, every text message whose lower-cased
\* text contains a SALES keyword and which the SMALLTALK rule does not match
\* is classified SALES.
C17_SalesKeywordNotSmalltalk ==
    ( /\ call.op = "select_agent_kind"
      /\ is_none(call.allowed_agents)
      /\ is_str(LastUserContent(call.messages))
      /\ rule_hits[LastUserContent(call.messages).str].SALES
      /\ ~rule_hits[LastUserContent(call.messages).str].SMALLTALK ) =>
        call.result = Return("SALES")

C17_Witness ==
    /\ call.op = "select_agent_kind"
    /\ is_none(call.allowed_agents)
    /\ LastUserContent(call.messages) = Str("What isPRICE")
    /\ rule_hits["What isPRICE"].FAQ
    /\ call.result = Return("SALES")

\* A text of blanks only (the empty text included).
Blank(text) == \A i \in 1..Len(text) : SubSeq(text, i, i) \in {" ", "\t", "\n"}

\* C18: without an allow-list, a conversation that is empty, has no user
\* message, or whose last user message is empty or blank is classified
\* GENERAL.
C18_NothingToClassify ==
    ( /\ call.op = "select_agent_kind"
      /\ is_none(call.allowed_agents)
      /\ \/ call.messages = <<>>
         \/ LastUserIndex(call.messages) = 0
         \/ /\ is_str(LastUserContent(call.messages))
            /\ Blank(LastUserContent(call.messages).str) ) =>
        call.result = Return("GENERAL")

C18_Witness ==
    /\ call.op = "select_agent_kind"
    /\ is_none(call.allowed_agents)
    /\ LastUserIndex(call.messages) > 0
    /\ LastUserContent(call.messages) = Str("  ")
    /\ call.result = Return("GENERAL")

\* The record of each category: its priority and its typical intents.
OwnRecord(kind) ==
    CASE kind = "SALES" ->
             [description |-> "Handles pricing, plans, and purchase inquiries",
              priority |-> "high",
              typical_intents |-> <<"pricing", "purchase", "upgrade">>]
      [] kind = "SUPPORT" ->
             [description |-> "Handles technical issues and help requests",
              priority |-> "high",
              typical_intents |-> <<"error", "help", "configuration">>]
      [] kind = "FAQ" ->
             [description |-> "Handles frequently asked questions",
              priority |-> "medium",
              typical_intents |-> <<"information", "how-to", "capabilities">>]
      [] kind = "SMALLTALK" ->
             [description |-> "Handles greetings and casual conversation",
              priority |-> "low",
              typical_intents |-> <<"greeting", "farewell", "acknowledgment">>]
      [] OTHER ->
             [description |-> "Default handler for unclassified queries",
              priority |-> "medium",
              typical_intents |-> <<"general", "unclassified">>]

\* C20: get_agent_info returns the category's own record for each of the five
\* exact strings and the GENERAL record for every other string; and for the
\* category a select_agent_kind call returned, it returns that category's
\* own record.
C20_OwnRecord ==
    /\ call.op = "get_agent_info" =>
           call.result = Return(OwnRecord(IF call.agent_kind \in AgentKinds
                                          THEN call.agent_kind ELSE "GENERAL"))
    /\ (call.op = "select_agent_kind" /\ call.result.ok) =>
           /\ call.result.value \in AgentKinds
           /\ get_agent_info(call.result.value)
                  = Return(OwnRecord(call.result.value))

C20_Witness ==
    /\ call.op = "get_agent_info"
    /\ call.agent_kind = "sales"
    /\ call.result.value.typical_intents = <<"general", "unclassified">>

\* ------------------------------------------------- properties of sequences

\* The call in progress has the operation, the object and the arguments of
\* the call kept in mind.
SameInput ==
    /\ call.op = earlier.op
    /\ \A field \in DOMAIN call \ {"result"} : call[field] = earlier[field]

\* C14: in every sequence of calls, with calculators constructed in between,
\* no step changes the static pricing table, the keyword tables, the router
\* once constructed (its strategy and its calculator's pricing table) or the
\* pricing table of a calculator that exists, the two module-level tables
\* stay as the modules define them, and a call with the input of an earlier
\* call on the same object returns what that call returned.
C14_NoHiddenState ==
    /\ [](/\ MODEL_PRICING = StaticPricing
          /\ COMPLEXITY_KEYWORDS = StaticKeywords
          /\ (call.op \notin {"idle", "SmartRouter", "CostCalculator"}
                  /\ earlier # Idle /\ SameInput)
                 => call.result = earlier.result)
    /\ [][/\ MODEL_PRICING' = MODEL_PRICING
          /\ COMPLEXITY_KEYWORDS' = COMPLEXITY_KEYWORDS
          /\ router # NoRouter => router' = router
          /\ \A c \in DOMAIN calculators : calculators'[c] = calculators[c]]_vars

C14_Witness ==
    /\ call.op = "estimate_cost"
    /\ call.model = "gpt-4o"
    /\ call.tokens = Some(1000)
    /\ earlier = call
    /\ Len(calculators) = 1
    /\ "gpt-4o" \in DOMAIN SuppliedEntries(constructed_with[1])
    /\ calculators[1].pricing["gpt-4o"] # router._cost_calculator.pricing["gpt-4o"]

\* --------------------------------------------------- properties of threads

\* What calculate returns on a calculator as it was constructed with
\* custom_pricing, for each call the threads make, worked out once.
calculate_alone ==
    [custom_pricing \in CustomPricings, model \in FewModels,
     tokens \in ThreadTokenArgs |->
        calculate([pricing |-> update(StaticPricing,
                                      SuppliedEntries(custom_pricing))],
                  model, tokens.total, tokens.input, tokens.output)]

\* What the call that thread t has finished returns when it runs alone on
\* the objects as they were constructed.
Alone(t) ==
    LET th == threads[t]
    IN  CASE th.op = "select_agent_kind" ->
                 select_agent_kind(th.messages, th.allowed_agents)
          [] th.op = "select_model" ->
                 select_model(router.strategy, th.messages, th.config)
          [] th.op = "get_complexity" -> get_complexity(th.messages)
          [] th.op = "calculate" ->
                 calculate_alone[constructed_with[th.calculator], th.model,
                                 [total |-> th.tokens_total,
                                  input |-> th.tokens_input,
                                  output |-> th.tokens_output]]

\* C15: however the steps of the threads interleave, a call that has finished
\* has the result it has when run alone, the module-level tables and the
\* calculator's pricing table are as they were after construction, and no
\* step changes the router, its strategy included.
C15_ThreadsDoNotInterfere ==
    /\ [](/\ \A t \in Threads :
                 threads[t].pc = "done" => threads[t].result = Alone(t)
          /\ MODEL_PRICING = StaticPricing
          /\ COMPLEXITY_KEYWORDS = StaticKeywords
          /\ \A c \in DOMAIN calculators :
                 calculators[c].pricing
                     = update(StaticPricing, SuppliedEntries(constructed_with[c])))
    /\ [][router' = router]_vars

\* Two calls are in progress at once, one of them a calculate for a model the
\* table does not hold, past its lookup, while the other has finished.
C15_Witness ==
    \E t, u \in Threads :
        /\ t # u
        /\ threads[t].pc = "cost"
        /\ threads[t].model = "my-model"
        /\ threads[u].pc = "done"
        /\ threads[u].op = "calculate"
        /\ threads[u].model = "my-model"
        /\ threads[u].result = Alone(u)

\* ---------------------------------------------------- properties of routes

\* The pair that the caller has in mind was returned without a forced model.
Routed == earlier.op = "select_model" /\ ~ForcesModel(earlier.config)

RoutedModel == earlier.result.value[2]

\* C21: the model returned under cost_optimized has an entry in the static
\* pricing table whose input price and output price are each at most those of
\* every entry, and for every token usage, by counts or by a total, it costs
\* at most what any known model costs.
C21_CheapestKnownModel ==
    (Routed /\ earlier.strategy = "cost_optimized") =>
        /\ RoutedModel \in DOMAIN MODEL_PRICING
        /\ \A m \in DOMAIN MODEL_PRICING :
               /\ float_le(MODEL_PRICING[RoutedModel].input_per_1k,
                           MODEL_PRICING[m].input_per_1k)
               /\ float_le(MODEL_PRICING[RoutedModel].output_per_1k,
                           MODEL_PRICING[m].output_per_1k)
        /\ call.op = "compare_models" =>
               \A m \in DOMAIN call.result.value :
                   float_le(call.result.value[RoutedModel], call.result.value[m])
        /\ (call.op = "estimate_cost" /\ call.model \in DOMAIN MODEL_PRICING) =>
               float_le(estimate_cost(router, RoutedModel, call.tokens).value,
                        call.result.value)

\* The cheapest model has been returned whatever the provider preferred, and
\* the known models are compared at a usage of one output token.
C21_Witness ==
    /\ Routed
    /\ earlier.strategy = "cost_optimized"
    /\ PreferredProvider(earlier.config) = "grok"
    /\ RoutedModel = "gemini-1.5-flash"
    /\ call.op = "compare_models"
    /\ call.tokens_input = 0
    /\ call.tokens_output = 1
    /\ DOMAIN call.result.value = DOMAIN MODEL_PRICING
    /\ float_lt(call.result.value[RoutedModel], call.result.value["gemini-2.0-flash"])

\* ------------------------------------ more properties of the categories

\* What the SMALLTALK rule is to say of each text of the model.  The
\* characters that are not blank lie between the first and the last of them;
\* the text matches when there are some and either none is a letter or a
\* digit, or the lower-cased text from the first to the last of them is a
\* social phrase of at most 4 tokens.
smalltalk_expected ==
    [text \in TextUniverse |->
        LET t     == lowered[text]
            solid == {i \in 1..Len(t) : ~isspace(SubSeq(t, i, i))}
        IN  /\ solid # {}
            /\ \/ \A i \in solid : ~isalnum(SubSeq(t, i, i))
               \/ LET first == CHOOSE i \in solid : \A j \in solid : i <= j
                  IN  \E phrase \in smalltalk_phrases :
                          /\ Cardinality(solid) <= Len(phrase)
                          /\ first + Len(phrase) - 1 \in solid
                          /\ \A j \in solid : j < first + Len(phrase)
                          /\ SubSeq(t, first, first + Len(phrase) - 1) = phrase
                          /\ split_len(phrase) <= 4]

TierByRule(text) ==
    LET t == lower(text)
    IN  IF any_in(COMPLEXITY_KEYWORDS_high, t) THEN "high"
        ELSE IF any_in(COMPLEXITY_KEYWORDS_medium, t) THEN "medium"
        ELSE IF Len(t) > 200 THEN "high"
        ELSE IF Len(t) > 50 THEN "medium"
        ELSE "low"

\* The texts of the parts tagged as text, in order; a part without text
\* counts as the empty text.
TextsOfParts(parts) ==
    LET tagged == SelectSeq(parts, LAMBDA p : "type" \in DOMAIN p /\ p.type = "text")
    IN  [i \in DOMAIN tagged |->
            IF "text" \in DOMAIN tagged[i] THEN tagged[i].text ELSE ""]

\* C23 as stated: when the last user message has a list content,
\* get_complexity returns the tier of the concatenation of its text parts.
C23_PartsConcatenated ==
    (call.op = "get_complexity" /\ is_list(LastUserContent(call.messages))) =>
        call.result =
            Return(TierByRule(concat(TextsOfParts(LastUserContent(call.messages).list))))

\* The tier of each list content of the model, its texts put one space
\* apart, evaluated once; the keywords of each text and its lower-cased form
\* are those of C8 and C9.
spaced_tier ==
    [parts \in BoundedSeq(Parts, MaxParts) |->
        LET text == join(" ", TextsOfParts(parts))
        IN  IF keyword_hits[text].high THEN "high"
            ELSE IF keyword_hits[text].medium THEN "medium"
            ELSE IF Len(lowered[text]) > 200 THEN "high"
            ELSE IF Len(lowered[text]) > 50 THEN "medium"
            ELSE "low"]

\* C23 amended: when the last user message has a list content, get_complexity
\* returns the tier of the texts of its parts tagged as text, in order and one
\* space apart, lower-cased; parts of another type have no influence.
C23_PartsJoinedBySpace ==
    (call.op = "get_complexity" /\ is_list(LastUserContent(call.messages))) =>
        call.result = Return(spaced_tier[LastUserContent(call.messages).list])

\* Two text parts make a medium keyword only with the space between them.
C23_Witness ==
    /\ call.op = "get_complexity"
    /\ LastUserContent(call.messages)
           = List(<<[type |-> "text", text |-> "what"],
                    [type |-> "text", text |-> "is"]>>)
    /\ TierByRule("whatis") = "low"
    /\ call.result = Return("medium")

\* ------------------------------------------------ more properties of costs

\* C24: a calculate call with both counts returns what it returns for the
\* two counts without a total; otherwise, with a total, what it returns for
\* the total alone; otherwise 0.0, also for one count without a total.
C24_PathBySuppliedCounts ==
    call.op = "calculate" =>
        IF BothCounts
        THEN call.result =
                 calculate(Called, call.model, None, call.tokens_input,
                           call.tokens_output)
        ELSE IF ~is_none(call.tokens_total)
        THEN call.result =
                 calculate(Called, call.model, call.tokens_total, None, None)
        ELSE call.result = Return(float_zero)

\* All three counts are supplied, and the cost is that of the two counts,
\* which is not the cost of the total.
C24_Witness ==
    /\ call.op = "calculate"
    /\ call.model = "gpt-4o"
    /\ call.tokens_total = Some(1000)
    /\ call.tokens_input = Some(500)
    /\ call.tokens_output = Some(200)
    /\ call.result = calculate(Called, "gpt-4o", None, Some(500), Some(200))
    /\ call.result # calculate(Called, "gpt-4o", Some(1000), None, None)
    /\ call.result # Return(float_zero)

\* ------------------------------------ properties of the other messages

\* The conversation with every message but its last user message removed.
OnlyLastUser(messages) ==
    IF LastUserIndex(messages) = 0 THEN <<>>
    ELSE <<messages[LastUserIndex(messages)]>>

\* C25: select_agent_kind and get_complexity give a conversation the outcome
\* they give its last user message alone, whatever messages come before or
\* after it: system and assistant messages and earlier user messages.
C25_OnlyLastUserMessage ==
    /\ call.op = "select_agent_kind" =>
           call.result = select_agent_kind(OnlyLastUser(call.messages),
                                           call.allowed_agents)
    /\ call.op = "get_complexity" =>
           call.result = get_complexity(OnlyLastUser(call.messages))

\* A greeting follows an earlier user message full of keywords and is
\* classified as if it stood alone.
C25_Witness ==
    /\ call.op = "select_agent_kind"
    /\ call.messages = <<earlier_user_message, user_message(Str("Hola"))>>
    /\ is_none(call.allowed_agents)
    /\ call.result = Return("SMALLTALK")
    /\ select_agent_kind(<<earlier_user_message>>, None) = Return("SALES")

\* ------------------------------------------ properties of the low keywords

\* C26: a last user message with a low keyword and without a high or medium
\* keyword has the tier of its length: high above 200 characters, medium
\* above 50, low otherwise.
C26_LowKeywordsUnused ==
    (call.op = "get_complexity" /\ LastUserIndex(call.messages) > 0) =>
        LET text == LastUserText(call.messages)
        IN  ( /\ low_keyword_hits[text]
              /\ ~keyword_hits[text].high
              /\ ~keyword_hits[text].medium ) =>
                call.result =
                    Return(IF Len(text) > 200 THEN "high"
                           ELSE IF Len(text) > 50 THEN "medium"
                           ELSE "low")

\* A greeting with a low keyword, longer than 200 characters, is high.
C26_Witness ==
    /\ call.op = "get_complexity"
    /\ LastUserContent(call.messages)
           = Str("Hola" \o filler(HighLength + MediumLength))
    /\ low_keyword_hits[LastUserText(call.messages)]
    /\ ~keyword_hits[LastUserText(call.messages)].medium
    /\ call.result = Return("high")

\* --------------------------------------- properties of the empty allow-list

\* C27: with the empty allow-list select_agent_kind gives every conversation
\* the outcome it gives it without an allow-list, and a text message the
\* category of its first matching rule, not the GENERAL of the fallback.
C27_EmptyAllowListUnrestricted ==
    (call.op = "select_agent_kind" /\ call.allowed_agents = Some(<<>>)) =>
        /\ call.result = select_agent_kind(call.messages, None)
        /\ is_str(LastUserContent(call.messages)) =>
               call.result = Return(FirstMatch(LastUserContent(call.messages).str))

\* A question about a price, with the empty allow-list, is SALES.
C27_Witness ==
    /\ call.op = "select_agent_kind"
    /\ call.allowed_agents = Some(<<>>)
    /\ LastUserContent(call.messages) = Str("PRICE")
    /\ call.result = Return("SALES")

\* ------------------------------------------- properties of force_provider

\* The dict d without the key k.
Without(d, k) == [x \in DOMAIN d \ {k} |-> d[x]]

C29_RoutedModelsPriced ==
    Routed =>
        /\ RoutedModel \in DOMAIN MODEL_PRICING
        /\ RoutedModel \in DOMAIN router._cost_calculator.pricing
        /\ (call.op = "estimate_cost" /\ call.model = RoutedModel) =>
               call.result =
                   calculate([pricing |-> (RoutedModel :> StaticPricing[RoutedModel])],
                             RoutedModel, call.tokens, None, None)

\* A balanced router has returned the gemini model of the high tier, and its
\* estimated cost is not the cost at the default entry.
C29_Witness ==
    /\ Routed
    /\ earlier.strategy = "balanced"
    /\ RoutedModel = "gemini-1.5-pro"
    /\ call.op = "estimate_cost"
    /\ call.model = RoutedModel
    /\ call.tokens = Some(1000)
    /\ call.result.ok
    /\ call.result.value # cost_of(DefaultEntry, 300, 700)

====
